---- MODULE Spec2Model ----
(***************************************************************************)
(* Model of src/server.py: the `archive` request handler, which spawns a   *)
(* `zip` process and pumps its stdout into an HTTP StreamResponse.         *)
(*                                                                         *)
(* One request is modelled.  The handler is a coroutine: `pc` is the await *)
(* it is suspended at; every handler action is the resumption from that    *)
(* await up to the next one.  The zip process, the event loop's child      *)
(* watcher / subprocess transport and the client are the environment.      *)
(***************************************************************************)
EXTENDS Integers, Sequences, FiniteSets, TLC

(* ---------------- bounds of the model ---------------- *)
MaxChunkSize == 2      \* chunk_size ranges over 1..MaxChunkSize (kilobytes)
MaxDelay     == 1      \* delay ranges over 0..MaxDelay (0 stands for None/0)
MaxBlocks    == 3      \* the archive is 0..MaxBlocks blocks long
BlockBytes   == 700    \* size of one block the producer emits at once
DiagBytes    == 98304  \* diagnostics zip prints per block of a big directory

(* ---------------- program constants ---------------- *)
KB == 1000             \* read(n=app_params.chunk_size * 1000)

ContentType == "multipart/form-data"

\* stderr=asyncio.subprocess.PIPE with the default limit of 2**16: the
\* StreamReader pauses the pipe transport above twice the limit, and the
\* kernel pipe behind it holds 2**16 bytes more
ReaderHighWater == 131072
StderrCapacity  == 196608

Hashes == {"abc123", "missing"}

VARIABLES
    chunk_size,     \* app_params.chunk_size
    delay,          \* app_params.delay
    archive_hash,   \* request.match_info['archive_hash']
    total,          \* number of bytes the zip process will produce
    dirExists,      \* os.path.exists(photo_directory)
    pc,             \* the handler's position
    outcome,        \* how the handler exited
    pending,        \* exception in flight while the finally block runs
    procState,      \* the zip process and its asyncio transport
    sigkill,        \* SIGKILL has been sent to the process
    emitted,        \* bytes the process has written to its stdout
    stderrFill,     \* bytes of diagnostics held by the stderr pipe, unread
    buffer,         \* proc.stdout: StreamReader buffer
    eof,            \* proc.stdout: EOF has been fed
    data,           \* local variable `data`
    chunk_number,   \* local variable `chunk_number`
    headers,        \* response headers sent by response.prepare
    body,           \* the chunks written to the response, in order
    slept,          \* seconds slept in asyncio.sleep since the last write
    lastReadN,      \* the n of the last proc.stdout.read(n)
    readsBegun,     \* history: number of reads started
    writesDone,     \* history: number of writes completed
    killCalls,      \* history: number of proc.kill() calls
    waited,         \* history: proc.communicate() has returned
    log,            \* history: spawn and cleanup calls, in order
    dirAtCheck,     \* history: what the check of line 27 saw
    cancelledAt,    \* history: await at which the first cancellation hit
    errorAt         \* history: await at which a non-cancellation error hit

vars == <<chunk_size, delay, archive_hash, total, dirExists, pc, outcome,
          pending, procState, sigkill, emitted, stderrFill, buffer, eof, data,
          chunk_number, headers, body, slept, lastReadN, readsBegun,
          writesDone, killCalls, log, waited, dirAtCheck, cancelledAt,
          errorAt>>

config  == <<chunk_size, delay, archive_hash, total>>
procVars == <<procState, sigkill, emitted, stderrFill, buffer, eof>>
respVars == <<headers, body>>
loopVars == <<data, chunk_number, slept, lastReadN, readsBegun, writesDone>>
histVars == <<killCalls, log, waited, dirAtCheck, cancelledAt, errorAt>>

(* ---------------- pure helpers ---------------- *)
Min(a, b) == IF a <= b THEN a ELSE b

\* the byte stream zip produces for a directory whose archive is t bytes long
Archive(t) == [i \in 1..t |-> i % 256]

\* bytes zip writes to its stderr ("adding: ..." lines) per block of output:
\* next to none for the directory abc123, many for the other one
Diagnostics(h) == IF h = "abc123" THEN 0 ELSE DiagBytes

\* f"{archive_hash}.zip"
Filename(h) == h \o ".zip"

\* the two headers set at lines 40-41
ResponseHeaders(h) ==
    {<<"Content-Type", ContentType>>,
     <<"Content-Disposition",
       "attachment; filename=\"" \o Filename(h) \o "\"">>}

\* the n passed to proc.stdout.read
ReadSize(c) == c * KB

\* mutants of StreamReader.read: n is ignored; one byte too many is dropped
StreamReadData_All(buf, n) == buf
StreamReadRest_OffByOne(buf, n) == SubSeq(buf, Min(n, Len(buf)) + 2, Len(buf))

\* StreamReader.read(n), n > 0: the first n bytes of the buffer, or all of it
StreamReadData(buf, n) == SubSeq(buf, 1, Min(n, Len(buf)))
StreamReadRest(buf, n) == SubSeq(buf, Min(n, Len(buf)) + 1, Len(buf))

\* StreamReader.at_eof()
AtEof == eof /\ buffer = <<>>

RECURSIVE Concat(_)
Concat(chunks) ==
    IF chunks = <<>> THEN <<>>
    ELSE Concat(SubSeq(chunks, 1, Len(chunks) - 1)) \o chunks[Len(chunks)]

IsPrefix(s, t) == Len(s) <= Len(t) /\ SubSeq(t, 1, Len(s)) = s

Reaped == {"reaped", "closed"}

(* ---------------- initial state ---------------- *)
Init ==
    /\ chunk_size \in 1..MaxChunkSize
    /\ delay \in 0..MaxDelay
    /\ archive_hash \in Hashes
    /\ total \in {b * BlockBytes : b \in 0..MaxBlocks}
    /\ dirExists \in BOOLEAN
    /\ pc = "check"
    /\ outcome = "none"
    /\ pending = "none"
    /\ procState = "none"
    /\ sigkill = FALSE
    /\ emitted = <<>>
    /\ stderrFill = 0
    /\ buffer = <<>>
    /\ eof = FALSE
    /\ data = <<>>
    /\ chunk_number = 0
    /\ headers = {}
    /\ body = <<>>
    /\ slept = 0
    /\ lastReadN = 0
    /\ readsBegun = 0
    /\ writesDone = 0
    /\ killCalls = 0
    /\ waited = FALSE
    /\ log = <<>>
    /\ dirAtCheck = "unchecked"
    /\ cancelledAt = "none"
    /\ errorAt = "none"

(* ---------------- the handler: lines 22-68 ---------------- *)

\* the handler leaves with exception (or return) o
Exit(o) ==
    /\ pc' = "done"
    /\ outcome' = o

\* mutant: the existence check is left out
CheckDir_NoCheck ==
    /\ pc = "check"
    /\ pc' = "spawn"
    /\ dirAtCheck' = IF dirExists THEN "present" ELSE "absent"
    /\ UNCHANGED <<config, dirExists, outcome, pending, procVars, respVars,
                   loopVars, killCalls, log, waited, cancelledAt, errorAt>>

\* lines 27-28
CheckDir ==
    /\ pc = "check"
    /\ IF dirExists
       THEN pc' = "spawn" /\ UNCHANGED outcome
       ELSE Exit("not_found")
    /\ dirAtCheck' = IF dirExists THEN "present" ELSE "absent"
    /\ UNCHANGED <<config, dirExists, pending, procVars, respVars, loopVars,
                   killCalls, log, waited, cancelledAt, errorAt>>

\* mutant: the pump starts without response.prepare
SpawnProc_NoPrepare ==
    /\ pc = "spawn"
    /\ dirExists
    /\ procState' = "running"
    /\ log' = Append(log, "spawn")
    /\ chunk_number' = 1
    /\ pc' = "loop"
    /\ UNCHANGED <<config, dirExists, outcome, pending, sigkill, emitted,
                   stderrFill, buffer, eof, respVars, data, slept, lastReadN,
                   readsBegun, writesDone, killCalls, waited, dirAtCheck,
                   cancelledAt, errorAt>>

\* lines 30-38: the process is started in cwd=photo_directory
SpawnProc ==
    /\ pc = "spawn"
    /\ dirExists
    /\ procState' = "running"
    /\ log' = Append(log, "spawn")
    /\ pc' = "prepare"
    /\ UNCHANGED <<config, dirExists, outcome, pending, sigkill, emitted,
                   stderrFill, buffer, eof, respVars, loopVars, killCalls,
                   waited, dirAtCheck, cancelledAt, errorAt>>

\* mutant: the headers are sent before the spawn is known to have failed
SpawnFail_HeadersSent ==
    /\ pc = "spawn"
    /\ headers' = ResponseHeaders(archive_hash)
    /\ Exit("spawn_error")
    /\ UNCHANGED <<config, dirExists, pending, procVars, body, loopVars,
                   histVars>>

\* lines 30-38: create_subprocess_exec raises (no zip binary, cwd removed)
SpawnFail ==
    /\ pc = "spawn"
    /\ Exit("spawn_error")
    /\ UNCHANGED <<config, dirExists, pending, procVars, respVars, loopVars,
                   histVars>>

\* lines 30-38 cancelled: asyncio closes the transport of a child it had
\* started and waits for it before the CancelledError leaves the call
SpawnCancel ==
    /\ pc = "spawn"
    /\ Exit("cancelled")
    /\ cancelledAt' = "spawn"
    /\ UNCHANGED <<config, dirExists, pending, procVars, respVars, loopVars,
                   killCalls, log, waited, dirAtCheck, errorAt>>

\* lines 39-45: headers are set and sent, chunk_number = 1
Prepare ==
    /\ pc = "prepare"
    /\ headers' = ResponseHeaders(archive_hash)
    /\ chunk_number' = 1
    /\ pc' = "loop"
    /\ UNCHANGED <<config, dirExists, outcome, pending, procVars, body, data,
                   slept, lastReadN, readsBegun, writesDone, histVars>>

\* line 43 raises: it is outside the try statement of line 46
PrepareFail ==
    /\ pc = "prepare"
    /\ Exit("error")
    /\ errorAt' = "prepare"
    /\ UNCHANGED <<config, dirExists, pending, procVars, respVars, loopVars,
                   killCalls, log, waited, dirAtCheck, cancelledAt>>

\* line 43 is cancelled: it is outside the try statement of line 46
PrepareCancel ==
    /\ pc = "prepare"
    /\ Exit("cancelled")
    /\ cancelledAt' = "prepare"
    /\ UNCHANGED <<config, dirExists, pending, procVars, respVars, loopVars,
                   killCalls, log, waited, dirAtCheck, errorAt>>

\* line 47, and the call of line 48
LoopTest ==
    /\ pc = "loop"
    /\ IF AtEof
       THEN /\ pc' = "finally"
            /\ UNCHANGED <<lastReadN, readsBegun>>
       ELSE /\ pc' = "read"
            /\ lastReadN' = ReadSize(chunk_size)
            /\ readsBegun' = readsBegun + 1
    /\ UNCHANGED <<config, dirExists, outcome, pending, procVars, respVars,
                   data, chunk_number, slept, writesDone, histVars>>

\* mutant: the chunk read is not written before the next read
ReadChunk_SkipWrite ==
    /\ pc = "read"
    /\ buffer # <<>> \/ eof
    /\ data' = StreamReadData(buffer, lastReadN)
    /\ buffer' = StreamReadRest(buffer, lastReadN)
    /\ pc' = "loop"
    /\ UNCHANGED <<config, dirExists, outcome, pending, procState, sigkill,
                   emitted, stderrFill, eof, respVars, chunk_number, slept,
                   lastReadN, readsBegun, writesDone, histVars>>

\* mutant: the read waits for data even after EOF was fed
ReadChunk_WaitsForData ==
    /\ pc = "read"
    /\ buffer # <<>>
    /\ data' = StreamReadData(buffer, lastReadN)
    /\ buffer' = StreamReadRest(buffer, lastReadN)
    /\ pc' = "write"
    /\ UNCHANGED <<config, dirExists, outcome, pending, procState, sigkill,
                   emitted, stderrFill, eof, respVars, chunk_number, slept,
                   lastReadN, readsBegun, writesDone, histVars>>

\* line 48: read returns once the buffer is not empty or EOF was fed
ReadChunk ==
    /\ pc = "read"
    /\ buffer # <<>> \/ eof
    /\ data' = StreamReadData(buffer, lastReadN)
    /\ buffer' = StreamReadRest(buffer, lastReadN)
    /\ pc' = "write"
    /\ UNCHANGED <<config, dirExists, outcome, pending, procState, sigkill,
                   emitted, stderrFill, eof, respVars, chunk_number, slept,
                   lastReadN, readsBegun, writesDone, histVars>>

\* lines 49-54 without a delay: the write completes, chunk_number += 1
\* lines 49-53 with a delay: the write completes and the sleep starts
WriteChunk ==
    /\ pc = "write"
    /\ body' = Append(body, data)
    /\ writesDone' = writesDone + 1
    /\ slept' = 0
    /\ IF delay # 0
       THEN pc' = "sleep" /\ UNCHANGED chunk_number
       ELSE pc' = "loop" /\ chunk_number' = chunk_number + 1
    /\ UNCHANGED <<config, dirExists, outcome, pending, procVars, headers,
                   data, lastReadN, readsBegun, histVars>>

\* line 53: one second of the sleep passes
SleepTick ==
    /\ pc = "sleep"
    /\ slept < delay
    /\ slept' = slept + 1
    /\ UNCHANGED <<config, dirExists, pc, outcome, pending, procVars,
                   respVars, data, chunk_number, lastReadN, readsBegun,
                   writesDone, histVars>>

\* mutant: the sleep returns at once
SleepDone_Early ==
    /\ pc = "sleep"
    /\ chunk_number' = chunk_number + 1
    /\ pc' = "loop"
    /\ UNCHANGED <<config, dirExists, outcome, pending, procVars, respVars,
                   data, slept, lastReadN, readsBegun, writesDone, histVars>>

\* lines 53-54: the sleep is over, chunk_number += 1
SleepDone ==
    /\ pc = "sleep"
    /\ slept >= delay
    /\ chunk_number' = chunk_number + 1
    /\ pc' = "loop"
    /\ UNCHANGED <<config, dirExists, outcome, pending, procVars, respVars,
                   data, slept, lastReadN, readsBegun, writesDone, histVars>>

\* mutant: the except clause of line 55 does not re-raise
PumpCancel_Swallow ==
    /\ pc \in {"read", "write", "sleep"}
    /\ cancelledAt' = pc
    /\ body' = IF pc = "write" THEN Append(body, data) ELSE body
    /\ writesDone' = IF pc = "write" THEN writesDone + 1 ELSE writesDone
    /\ pc' = "finally"
    /\ UNCHANGED <<config, dirExists, outcome, pending, procVars, headers,
                   data, chunk_number, slept, lastReadN, readsBegun,
                   killCalls, log, waited, dirAtCheck, errorAt>>

\* lines 55-57: CancelledError thrown into the await of line 48, 50 or 53.
\* A write is cancelled while it drains: its data went to the transport.
PumpCancel ==
    /\ pc \in {"read", "write", "sleep"}
    /\ pending' = "cancelled"
    /\ cancelledAt' = pc
    /\ body' = IF pc = "write" THEN Append(body, data) ELSE body
    /\ writesDone' = IF pc = "write" THEN writesDone + 1 ELSE writesDone
    /\ pc' = "finally"
    /\ UNCHANGED <<config, dirExists, outcome, procVars, headers, data,
                   chunk_number, slept, lastReadN, readsBegun, killCalls, log,
                   waited, dirAtCheck, errorAt>>

\* mutant: the error leaves the handler without the finally block
PumpError_NoFinally ==
    /\ pc \in {"read", "write"}
    /\ errorAt' = pc
    /\ Exit("error")
    /\ UNCHANGED <<config, dirExists, pending, procVars, respVars, loopVars,
                   killCalls, log, waited, dirAtCheck, cancelledAt>>

\* lines 58-60: the read of line 48 or the write of line 50 raises
PumpError ==
    /\ pc \in {"read", "write"}
    /\ pending' = "error"
    /\ errorAt' = pc
    /\ pc' = "finally"
    /\ UNCHANGED <<config, dirExists, outcome, procVars, respVars, loopVars,
                   killCalls, log, waited, dirAtCheck, cancelledAt>>

\* the outcome of the try statement once the finally block is through
Outcome(p) == IF p = "none" THEN "returned" ELSE p

\* proc.kill(): the transport raises ProcessLookupError once it is closed
KillRaises(ps) == ps = "closed"

\* mutant: the finally block waits without sending the signal
Kill_NoSignal ==
    /\ pc = "finally"
    /\ killCalls' = killCalls + 1
    /\ IF KillRaises(procState)
       THEN /\ Exit(Outcome(pending))
            /\ log' = log \o <<"kill", "lookup_error">>
       ELSE /\ pc' = "communicate"
            /\ log' = log \o <<"kill", "communicate">>
            /\ UNCHANGED outcome
    /\ UNCHANGED <<config, dirExists, pending, procVars, respVars, loopVars,
                   waited, dirAtCheck, cancelledAt, errorAt>>

\* mutant: ProcessLookupError is not caught
Kill_Uncaught ==
    /\ pc = "finally"
    /\ killCalls' = killCalls + 1
    /\ IF KillRaises(procState)
       THEN /\ Exit("error")
            /\ log' = log \o <<"kill", "lookup_error">>
            /\ UNCHANGED sigkill
       ELSE /\ sigkill' = TRUE
            /\ pc' = "communicate"
            /\ log' = log \o <<"kill", "communicate">>
            /\ UNCHANGED outcome
    /\ UNCHANGED <<config, dirExists, pending, procState, emitted,
                   stderrFill, buffer, eof, respVars, loopVars, waited,
                   dirAtCheck, cancelledAt, errorAt>>

\* mutant: the process is signalled but not waited for
Kill_NoWait ==
    /\ pc = "finally"
    /\ killCalls' = killCalls + 1
    /\ Exit(Outcome(pending))
    /\ IF KillRaises(procState)
       THEN /\ log' = log \o <<"kill", "lookup_error">>
            /\ UNCHANGED sigkill
       ELSE /\ sigkill' = TRUE
            /\ log' = Append(log, "kill")
    /\ UNCHANGED <<config, dirExists, pending, procState, emitted,
                   stderrFill, buffer, eof, respVars, loopVars, waited,
                   dirAtCheck, cancelledAt, errorAt>>

\* lines 61-64, 66-68
Kill ==
    /\ pc = "finally"
    /\ killCalls' = killCalls + 1
    /\ IF KillRaises(procState)
       THEN /\ Exit(Outcome(pending))
            /\ log' = log \o <<"kill", "lookup_error">>
            /\ UNCHANGED sigkill
       ELSE /\ sigkill' = TRUE
            /\ pc' = "communicate"
            /\ log' = log \o <<"kill", "communicate">>
            /\ UNCHANGED outcome
    /\ UNCHANGED <<config, dirExists, pending, procState, emitted,
                   stderrFill, buffer, eof, respVars, loopVars, waited,
                   dirAtCheck, cancelledAt, errorAt>>

\* lines 65, 68: communicate reads the pipes to EOF and waits for the exit
Communicate ==
    /\ pc = "communicate"
    /\ procState \in Reaped
    /\ buffer' = <<>>
    /\ stderrFill' = 0
    /\ waited' = TRUE
    /\ log' = Append(log, "waited")
    /\ Exit(Outcome(pending))
    /\ UNCHANGED <<config, dirExists, pending, procState, sigkill, emitted,
                   eof, respVars, loopVars, killCalls, dirAtCheck,
                   cancelledAt, errorAt>>

\* line 65 is cancelled: CancelledError leaves the finally block
CommunicateCancel ==
    /\ pc = "communicate"
    /\ cancelledAt' = IF cancelledAt = "none" THEN pc ELSE cancelledAt
    /\ log' = Append(log, "wait_cancelled")
    /\ Exit("cancelled")
    /\ UNCHANGED <<config, dirExists, pending, procVars, respVars, loopVars,
                   killCalls, waited, dirAtCheck, errorAt>>

(* ---------------- the environment ---------------- *)

\* the directory is removed between the check and the spawn
RemoveDir ==
    /\ pc = "spawn"
    /\ dirExists
    /\ dirExists' = FALSE
    /\ UNCHANGED <<config, pc, outcome, pending, procVars, respVars,
                   loopVars, histVars>>

\* zip is stuck in a write to its stderr: the pipe is full and nobody reads
StderrBlocked ==
    /\ procState = "running"
    /\ ~sigkill
    /\ Len(emitted) < total
    /\ stderrFill + Diagnostics(archive_hash) > StderrCapacity

\* zip writes the diagnostics of the next k blocks to its stderr and the
\* blocks to its stdout
ProducerEmit ==
    /\ procState = "running"
    /\ ~sigkill
    /\ \E k \in 1..MaxBlocks :
        /\ Len(emitted) + k * BlockBytes <= total
        /\ stderrFill + k * Diagnostics(archive_hash) <= StderrCapacity
        /\ stderrFill' = stderrFill + k * Diagnostics(archive_hash)
        /\ LET piece == SubSeq(Archive(total), Len(emitted) + 1,
                               Len(emitted) + k * BlockBytes)
           IN /\ emitted' = emitted \o piece
              /\ buffer' = buffer \o piece
    /\ UNCHANGED <<config, dirExists, pc, outcome, pending, procState,
                   sigkill, eof, respVars, loopVars, histVars>>

\* zip exits: it is done or it was killed; its stdout reaches EOF
ProcExit ==
    /\ procState = "running"
    /\ sigkill \/ Len(emitted) = total
    /\ procState' = "exited"
    /\ eof' = TRUE
    /\ UNCHANGED <<config, dirExists, pc, outcome, pending, sigkill, emitted,
                   stderrFill, buffer, respVars, loopVars, histVars>>

\* the event loop's child watcher reaps the process
WatcherReap ==
    /\ procState = "exited"
    /\ procState' = "reaped"
    /\ UNCHANGED <<config, dirExists, pc, outcome, pending, sigkill, emitted,
                   stderrFill, buffer, eof, respVars, loopVars, histVars>>

\* the subprocess transport closes once the process is reaped and its pipes
\* are at EOF, which a paused stderr pipe does not reach
TransportClose ==
    /\ procState = "reaped"
    /\ stderrFill <= ReaderHighWater
    /\ procState' = "closed"
    /\ UNCHANGED <<config, dirExists, pc, outcome, pending, sigkill, emitted,
                   stderrFill, buffer, eof, respVars, loopVars, histVars>>

Next ==
    \/ CheckDir
    \/ SpawnProc
    \/ SpawnFail
    \/ SpawnCancel
    \/ Prepare
    \/ PrepareFail
    \/ PrepareCancel
    \/ LoopTest
    \/ ReadChunk
    \/ WriteChunk
    \/ SleepTick
    \/ SleepDone
    \/ PumpCancel
    \/ PumpError
    \/ Kill
    \/ Communicate
    \/ CommunicateCancel
    \/ RemoveDir
    \/ ProducerEmit
    \/ ProcExit
    \/ WatcherReap
    \/ TransportClose

Spec == Init /\ [][Next]_vars


(* The event loop resumes a coroutine whose await is ready, the kernel ends  *)
(* a process that got SIGKILL or finished, and the child watcher reaps it.   *)
(* Nothing makes zip progress: it blocks once nobody drains its pipe.        *)
HandlerStep ==
    \/ CheckDir \/ SpawnProc \/ Prepare \/ LoopTest \/ ReadChunk
    \/ WriteChunk \/ SleepTick \/ SleepDone \/ Kill \/ Communicate

FairSpec ==
    /\ Spec
    /\ WF_vars(HandlerStep)
    /\ WF_vars(ProcExit)
    /\ WF_vars(WatcherReap)
    /\ WF_vars(TransportClose)

(* ======================= the claims ======================= *)

PumpPoints == {"read", "write", "sleep"}
Spawned == procState # "none"
Handled == pc = "done"

\* C1: whenever the handler has exited after spawning a process, by any
\* path, proc.kill() was called and the process has been reaped.
C1_KilledAndReapedOnEveryExit ==
    (Handled /\ Spawned) => (killCalls >= 1 /\ procState \in Reaped)

\* C2: a cancellation that hits the read, the write or the sleep takes the
\* handler out of the loop for good, and leads to proc.kill() having been
\* called once and the process being reaped: no process is leaked.
C2_CancelledPumpLeaksNoProcess ==
    /\ [](cancelledAt \in PumpPoints
            => pc \in {"finally", "communicate", "done"})
    /\ (cancelledAt \in PumpPoints)
          ~> (killCalls = 1 /\ procState \in Reaped)

C2_Witness ==
    /\ cancelledAt \in PumpPoints
    /\ sigkill
    /\ waited
    /\ procState \in Reaped

\* C3: when the check of line 27 finds no directory, the handler is over
\* with NotFound, no process exists, and no header, read or body byte
\* happened.
C3_AbsentDirIsNotFound ==
    dirAtCheck = "absent" =>
        /\ Handled
        /\ outcome = "not_found"
        /\ ~Spawned
        /\ headers = {}
        /\ body = <<>>
        /\ readsBegun = 0

C3_Witness == Handled /\ outcome = "not_found" /\ dirAtCheck = "absent"

\* C4: once the pump was cancelled the handler is in its cleanup or has
\* exited; when it has exited, its outcome is the cancellation and
\* proc.kill() was called before.
C4_CancellationResignalledAfterKill ==
    cancelledAt \in PumpPoints =>
        \/ pc \in {"finally", "communicate"}
        \/ Handled /\ outcome = "cancelled" /\ killCalls = 1

C4_Witness ==
    cancelledAt \in PumpPoints /\ Handled /\ outcome = "cancelled" /\ waited

\* C5: when a read or a write failed with a non-cancellation error and the
\* handler has exited, its outcome is that error and proc.kill() was called.
C5_ErrorResignalledAfterCleanup ==
    (errorAt \in {"read", "write"} /\ Handled)
        => (outcome = "error" /\ killCalls = 1)

\* C6: no read begins before the write of the chunk read before it is
\* complete: at most one chunk is read and not yet written.
C6_DepthOnePipeline ==
    /\ readsBegun <= writesDone + 1
    /\ pc = "write" => readsBegun = writesDone + 1

C6_Witness == writesDone >= 2 /\ readsBegun = writesDone + 1

\* C7: the concatenation of the writes made so far is a prefix of what the
\* producer emitted; when the handler returns normally it is all of it,
\* which is the whole archive.
C7_BodyIsPrefixOfStream ==
    /\ IsPrefix(Concat(body), emitted)
    /\ outcome = "returned" =>
          /\ Concat(body) = emitted
          /\ emitted = [i \in 1..total |-> i % 256]

C7_Witness ==
    /\ outcome = "returned"
    /\ Len(emitted) > 1000 * chunk_size
    /\ \E i \in 1..Len(body) : body[i] # <<>> /\ Len(body[i]) < 1000

\* C8 as stated: no read asks for more than chunk_size bytes and no write
\* carries more than chunk_size bytes.
C8_Original ==
    /\ lastReadN <= chunk_size
    /\ \A i \in 1..Len(body) : Len(body[i]) <= chunk_size

\* C8 as amended: no read asks for more than chunk_size * 1000 bytes and no
\* write carries more than chunk_size * 1000 bytes.
C8_ChunkCapIsKilobytes ==
    /\ lastReadN <= chunk_size * 1000
    /\ \A i \in 1..Len(body) : Len(body[i]) <= chunk_size * 1000

C8_Witness ==
    \E i \in 1..Len(body) :
        Len(body[i]) = chunk_size * 1000 /\ Len(emitted) > chunk_size * 1000

\* C9: a process exists only after the check found the directory; headers
\* are sent only after the spawn and are the Content-Type and the
\* Content-Disposition naming "<identifier>.zip"; reads and body writes
\* happen only after the headers.
C9_HandlerSequencing ==
    /\ Spawned => dirAtCheck = "present"
    /\ headers # {} =>
          /\ Spawned
          /\ headers =
               {<<"Content-Type", "multipart/form-data">>,
                <<"Content-Disposition",
                  "attachment; filename=\"" \o archive_hash \o ".zip\"">>}
    /\ (readsBegun > 0 \/ body # <<>>) => headers # {}

C9_Witness == headers # {} /\ Concat(body) # <<>>

\* C10: with a delay configured, after the first write the pump is in the
\* loop only after a sleep of the whole delay since the last write; without
\* a delay it never sleeps.
C10_DelayBetweenWrites ==
    /\ (delay # 0 /\ writesDone >= 1 /\ pc \in {"loop", "read", "write"})
          => slept >= delay
    /\ delay = 0 => (pc # "sleep" /\ slept = 0)

C10_Witness == delay # 0 /\ writesDone >= 2 /\ slept = delay /\ pc = "write"


(* ---------------- helpers of the claims below ---------------- *)
Logged(e) == \E i \in 1..Len(log) : log[i] = e
Count(e) == Cardinality({i \in 1..Len(log) : log[i] = e})
IsData(c) == c # <<>>
DataWrites == SelectSeq(body, IsData)
CeilDiv(t, c) == (t + c - 1) \div c
PumpOutcome ==
    IF cancelledAt \in PumpPoints THEN "cancelled"
    ELSE IF errorAt \in {"read", "write"} THEN "error"
    ELSE "returned"

\* C11: zip is never stuck in a write to its stderr while the pump waits for
\* stdout data that cannot come.
C11_NoStderrDeadlock ==
    ~(StderrBlocked /\ pc = "read" /\ buffer = <<>> /\ ~eof)

\* C12: when proc.kill() found no process, nothing was raised to the caller:
\* the handler has exited with the outcome the pump had (normal return, or
\* the pending cancellation or error), and no signal was sent.
C12_LookupErrorIsNoOp ==
    Logged("lookup_error") =>
        /\ Handled
        /\ outcome = PumpOutcome
        /\ ~sigkill
        /\ procState = "closed"

C12_Witness ==
    Logged("lookup_error") /\ outcome = "cancelled" /\ cancelledAt = "sleep"

\* C13: when the handler returned, the archive is not empty and every write
\* of data but the last one was a full read of chunk_size * 1000 bytes, the writes are exactly the
\* ceil(total / cap) chunks cap, ..., cap, rest, none of them empty, and the
\* process is reaped.
C13_WritesAreTheFullChunks ==
    LET cap == chunk_size * 1000
        n == Len(body)
    IN (/\ outcome = "returned"
        /\ total > 0
        /\ \A i \in 1..(Len(DataWrites) - 1) : Len(DataWrites[i]) = cap)
       => /\ n = CeilDiv(total, cap)
          /\ \A i \in 1..n :
                Len(body[i]) = IF i < n THEN cap ELSE total - (n - 1) * cap
          /\ \A i \in 1..n : body[i] # <<>>
          /\ procState \in Reaped

\* C14: when the handler failed with NotFound or with a spawn error, no
\* header and no body byte was sent, no read was made and no process exists.
C14_PreStreamErrorsLeaveResponseUncommitted ==
    outcome \in {"not_found", "spawn_error"} =>
        /\ headers = {}
        /\ body = <<>>
        /\ readsBegun = 0
        /\ ~Spawned
        /\ log = <<>>

C14_Witness == Handled /\ outcome = "spawn_error" /\ dirAtCheck = "present"

\* C15 as stated: on every exit after proc.kill() was called,
\* proc.communicate() was called after it.
C15_Original ==
    (Handled /\ Logged("kill")) => Logged("communicate")

\* C15 as amended: on every exit after proc.kill() was called, either
\* proc.communicate() was called right after it, or proc.kill() raised
\* ProcessLookupError, the wait was skipped and the process had been reaped.
C15_WaitUnlessLookupError ==
    (Handled /\ Logged("kill")) =>
        /\ Len(log) >= 3
        /\ SubSeq(log, 1, 2) = <<"spawn", "kill">>
        /\ log[3] \in {"communicate", "lookup_error"}
        /\ log[3] = "lookup_error" => (Len(log) = 3 /\ procState = "closed")

C15_Witness ==
    Handled /\ log = <<"spawn", "kill", "lookup_error">> /\ errorAt = "read"

\* C16: when the wait of the cleanup step was cancelled and the handler has
\* exited, the process has been reaped.
C16_CancelledWaitStillReaps ==
    (Handled /\ Logged("wait_cancelled")) => procState \in Reaped

C18_OneSpawnOneKill ==
    /\ Count("spawn") <= 1
    /\ Count("kill") <= 1
    /\ killCalls = Count("kill")
    /\ (Handled /\ headers # {}) => Count("kill") = 1

C18_Witness ==
    Handled /\ errorAt = "write" /\ Count("kill") = 1 /\ Count("spawn") = 1

\* C19: once the last data of the stream has been written, the pump does
\* not sleep for the delay any more.
C19_NoDelayAfterLastChunk ==
    ~(pc = "sleep" /\ total > 0 /\ Len(Concat(body)) = total)

TypeOK ==
    /\ pc \in {"check", "spawn", "prepare", "loop", "read", "write", "sleep",
               "finally", "communicate", "done"}
    /\ outcome \in {"none", "returned", "not_found", "spawn_error",
                    "cancelled", "error"}
    /\ procState \in {"none", "running", "exited", "reaped", "closed"}

====
